---- MODULE Spec2Model ----
(***************************************************************************)
(* coverage-rest-client: a wrapper around Coverage / Coverage Collection   *)
(* objects that splits subset / filter constraints into a part run by a    *)
(* remote API and a part run locally.                                      *)
(*                                                                         *)
(* Sources modelled:                                                       *)
(*   src/src/util.js        wrap, wrapCoverage, wrappedSubsetByValue,      *)
(*                          wrappedSubsetByIndex, the helpers              *)
(*   src/unnamed/part_002   wrapCollection, QueryProxy (filter, subset,    *)
(*                          embed, execute), getOptionsWithHeaders         *)
(*   src/unnamed/part_001   discover, API (capabilities, URL and headers)  *)
(*                                                                         *)
(* A JavaScript object is modelled as the sequence of its <<key, value>>   *)
(* pairs in insertion order, which is the order Object.keys walks.         *)
(***************************************************************************)
EXTENDS Integers, Sequences, FiniteSets, TLC

\* JavaScript's undefined: the concept of an axis that has none, an absent property.
Undef == "undefined"

----------------------------------------------------------------------------
\* JavaScript objects as sequences of <<key, value>> pairs

Range(f) == {f[i] : i \in DOMAIN f}

Keys(o) == [i \in 1..Len(o) |-> o[i][1]]

KeySet(o) == {o[i][1] : i \in 1..Len(o)}

Has(o, k) == k \in KeySet(o)

Get(o, k) == o[CHOOSE i \in 1..Len(o) : o[i][1] = k][2]

\* o[k] = v
Put(o, k, v) ==
    IF Has(o, k)
    THEN [i \in 1..Len(o) |-> IF o[i][1] = k THEN <<k, v>> ELSE o[i]]
    ELSE Append(o, <<k, v>>)

\* delete o[k]
Del(o, k) == SelectSeq(o, LAMBDA p : p[1] # k)

IndexOf(s, e) == IF e \in Range(s) THEN CHOOSE i \in 1..Len(s) : s[i] = e /\ \A j \in 1..(i-1) : s[j] # e ELSE 0

Abs(n) == IF n < 0 THEN -n ELSE n

----------------------------------------------------------------------------
\* Constraints.  typeof constraint !== 'object' holds of the primitives
\* (an exact value, an index); the others are objects with the named members.

Exact(v) == [k |-> "exact", v |-> <<v>>]
Nearest(t) == [k |-> "target", v |-> <<t>>]
StartStop(a, b) == [k |-> "startstop", v |-> <<a, b>>]
\* step = 0 stands for an absent step member
Slice(a, b, st) == [k |-> "slice", v |-> <<a, b, st>>]
\* null / undefined entry of a constraints object
Null == [k |-> "null", v |-> <<>>]

IsPrimitive(c) == c.k = "exact"
HasTarget(c) == c.k = "target"
HasStartStop(c) == c.k \in {"startstop", "slice"}

----------------------------------------------------------------------------
\* Domains.  An ISO time string is coded as 2 * instant + spelling, so that two
\* spellings of one instant are different strings with the same timestamp.

toUnix(s) == s \div 2

DomGrid ==
    [axes |-> <<"x", "y", "z">>,
     values |-> [a \in {"x", "y", "z"} |->
                    CASE a = "x" -> <<0, 120, 240>>
                      [] a = "y" -> <<0, 10>>
                      [] a = "z" -> <<0, 10, 20, 30>>],
     referencing |-> << [components |-> <<"x", "y">>, type |-> "GeodeticCRS"],
                        [components |-> <<"z">>, type |-> "VerticalCRS"] >>,
     iso |-> {}, lon |-> {"x"}]

DomSeries ==
    [axes |-> <<"t", "z">>,
     values |-> [a \in {"t", "z"} |->
                    CASE a = "t" -> <<0, 4, 8>>
                      [] a = "z" -> <<5>>],
     referencing |-> << [components |-> <<"t">>, type |-> "TemporalRS"],
                        [components |-> <<"z">>, type |-> "VerticalCRS"] >>,
     iso |-> {"t"}, lon |-> {}]

\* two time axes (see the TODO at util.js:435) and an axis without referencing
DomTwoTimes ==
    [axes |-> <<"t", "t2", "b">>,
     values |-> [a \in {"t", "t2", "b"} |->
                    CASE a = "t" -> <<0, 4, 8>>
                      [] a = "t2" -> <<8, 4>>
                      [] a = "b" -> <<1, 2>>],
     referencing |-> << [components |-> <<"t">>, type |-> "TemporalRS"],
                        [components |-> <<"t2">>, type |-> "TemporalRS"] >>,
     iso |-> {"t", "t2"}, lon |-> {}]

Domains == {DomGrid, DomSeries, DomTwoTimes}

AxisSet(domain) == Range(domain.axes)

----------------------------------------------------------------------------
\* getAxisConcepts: axis key -> API concept, Undef when unknown

RefsOf(domain, axis) ==
    SelectSeq(domain.referencing, LAMBDA ref : IndexOf(ref.components, axis) # 0)

\* the first referencing entry that has the axis is taken, however many have it
ConceptOfFirstEntry(domain, axis) ==
    LET ref == RefsOf(domain, axis) IN
    IF Len(ref) = 0 THEN Undef
    ELSE LET idx == IndexOf(ref[1].components, axis) - 1
         IN  CASE ref[1].type = "TemporalRS" -> "time"
               [] ref[1].type = "VerticalCRS" -> "vertical"
               [] ref[1].type \in {"GeodeticCRS", "ProjectedCRS"} ->
                    (CASE idx = 0 -> "x"
                       [] idx = 1 -> "y"
                       [] idx = 2 -> "vertical"
                       [] OTHER -> Undef)
               [] OTHER -> Undef

ConceptOf(domain, axis) ==
    LET ref == RefsOf(domain, axis) IN
    IF Len(ref) # 1 THEN Undef
    ELSE LET type == ref[1].type
             idx == IndexOf(ref[1].components, axis) - 1
         IN  CASE type = "TemporalRS" -> "time"
               [] type = "VerticalCRS" -> "vertical"
               [] type \in {"GeodeticCRS", "ProjectedCRS"} ->
                    (CASE idx = 0 -> "x"
                       [] idx = 1 -> "y"
                       [] idx = 2 -> "vertical"
                       [] OTHER -> Undef)
               [] OTHER -> Undef

\* axisMap[axis]; a key that is no axis of the domain reads as undefined
getAxisConcepts(domain) ==
    [axis \in AxisSet(domain) |-> ConceptOf(domain, axis)]

AxisMapGet(axisMap, axis) == IF axis \in DOMAIN axisMap THEN axisMap[axis] ELSE Undef

----------------------------------------------------------------------------
\* API discovery (part_001).  The metadata document is reduced to what the
\* constructor reads: the recognised URL properties of the IRI template, the
\* canInclude flag and the paging view.

UrlProps ==
    {"filterBbox", "filterTimeStart", "filterTimeEnd", "filterVerticalStart",
     "filterVerticalEnd", "subsetBbox", "subsetTimeStart", "subsetTimeEnd",
     "subsetVerticalStart", "subsetVerticalEnd", "subsetVerticalTarget", "subsetIndex"}

\* a capability record; def = FALSE is the absent record (caps[concept] undefined)
NoCap == [def |-> FALSE, start |-> FALSE, stop |-> FALSE, target |-> FALSE,
          identity |-> FALSE, step |-> FALSE, dependency |-> <<>>]

startstop == [NoCap EXCEPT !.def = TRUE, !.start = TRUE, !.stop = TRUE]

supportsBboxFiltering(props) == "filterBbox" \in props
supportsBboxSubsetting(props) == "subsetBbox" \in props
supportsTimeFiltering(props) == {"filterTimeStart", "filterTimeEnd"} \subseteq props
supportsTimeSubsetting(props) == {"subsetTimeStart", "subsetTimeEnd"} \subseteq props
supportsVerticalFiltering(props) == {"filterVerticalStart", "filterVerticalEnd"} \subseteq props
supportsVerticalSubsetting(props) == {"subsetVerticalStart", "subsetVerticalEnd"} \subseteq props
supportsVerticalTargetSubsetting(props) == "subsetVerticalTarget" \in props
supportsIndexSubsetting(props) == "subsetIndex" \in props

\* o, with the pairs of add appended when cond holds
When(cond, add) == IF cond THEN add ELSE <<>>

createCapabilities(props, supportsPreferHeaders) ==
    [def |-> TRUE,
     filter |->
        When(supportsBboxFiltering(props),
             << <<"x", [startstop EXCEPT !.dependency = <<"y">>]>>,
                <<"y", [startstop EXCEPT !.dependency = <<"x">>]>> >>)
        \o When(supportsTimeFiltering(props), << <<"time", startstop>> >>)
        \o When(supportsVerticalFiltering(props), << <<"vertical", startstop>> >>),
     subset |->
        When(supportsBboxSubsetting(props),
             << <<"x", [startstop EXCEPT !.dependency = <<"y">>]>>,
                <<"y", [startstop EXCEPT !.dependency = <<"x">>]>> >>)
        \o When(supportsTimeSubsetting(props), << <<"time", startstop>> >>)
        \o When(supportsVerticalSubsetting(props) \/ supportsVerticalTargetSubsetting(props),
                << <<"vertical",
                     [(IF supportsVerticalSubsetting(props) THEN startstop
                       ELSE [NoCap EXCEPT !.def = TRUE])
                      EXCEPT !.target = supportsVerticalTargetSubsetting(props)]>> >>)
        \o When(supportsIndexSubsetting(props),
                << <<"index", [startstop EXCEPT !.step = TRUE]>> >>),
     embed |-> [domain |-> supportsPreferHeaders, range |-> supportsPreferHeaders]]

\* this.capabilities of an API constructed without a document: never assigned
NoCapabilities ==
    [def |-> FALSE, filter |-> <<>>, subset |-> <<>>,
     embed |-> [domain |-> FALSE, range |-> FALSE]]

NoLinks == [first |-> FALSE, previous |-> FALSE, next |-> FALSE, last |-> FALSE]

\* new API(ld); hasLd = FALSE is new API()
NewAPI(hasLd, ld) ==
    IF ~hasLd
    THEN [supportedUrlProps |-> {}, hasUrlTemplate |-> FALSE,
          isPaged |-> FALSE, paging |-> NoLinks,
          supportsPreferHeaders |-> FALSE, capabilities |-> NoCapabilities]
    ELSE [supportedUrlProps |-> IF ld.template THEN ld.props \cap UrlProps ELSE {},
          hasUrlTemplate |-> ld.template,
          isPaged |-> ld.paged,
          paging |-> IF ld.paged THEN ld.view ELSE NoLinks,
          supportsPreferHeaders |-> ld.canInclude,
          capabilities |-> createCapabilities(IF ld.template THEN ld.props \cap UrlProps ELSE {},
                                              ld.canInclude)]

\* discover(cov): without an id the document is never read
discover(cov) == NewAPI(cov.id, cov.ld)

\* caps[concept]
CapGet(caps, concept) == IF Has(caps, concept) THEN Get(caps, concept) ELSE NoCap

----------------------------------------------------------------------------
\* The value snapper (util.js 476-514)

Min(S) == CHOOSE m \in S : \A n \in S : m <= n
Max(S) == CHOOSE m \in S : \A n \in S : m >= n

\* isISODateAxis: the axis values are ISO date strings
isISODateAxis(domain, axis) == axis \in domain.iso

isLongitudeAxis(domain, axis) == axis \in domain.lon

\* getLongitudeWrapper: wraps a longitude into the 360 degree window centred on
\* the middle of the axis's own value range
getLongitudeWrapper(domain, axis, lon) ==
    LET vals == Range(domain.values[axis])
        x0 == (Min(vals) + Max(vals)) \div 2 - 180
    IN  ((lon - x0) % 360) + x0

\* arrays.indicesOfNearest: <<lo, hi>>, the predecessor and the insertion point of
\* val in the monotonic vals (1-based), equal when val is an axis value or lies
\* beyond either end
indicesOfNearest(vals, val) ==
    LET n == Len(vals)
        ascending == n = 1 \/ vals[1] < vals[2]
        before(i) == IF ascending THEN vals[i] <= val ELSE vals[i] >= val
        los == {i \in 1..n : before(i)}
        his == {i \in 1..n : ~before(i)}
        lo == IF los = {} THEN Min(his) ELSE Max(los)
        hi == IF his = {} THEN Max(los) ELSE Min(his)
    IN  IF vals[lo] = val THEN <<lo, lo>> ELSE <<lo, hi>>

\* the upper neighbour is taken without comparing the distances
getClosestIndexArrHi(vals, val) == indicesOfNearest(vals, val)[2]

getClosestIndexArr(vals, val) ==
    LET lohi == indicesOfNearest(vals, val)
        lo == lohi[1]
        hi == lohi[2]
    IN  IF Abs(val - vals[lo]) <= Abs(val - vals[hi]) THEN lo ELSE hi

\* only the search value is converted, the axis values stay as they are
prepareForAxisArraySearchRaw(domain, axis, searchVal) ==
    <<domain.values[axis],
      IF isISODateAxis(domain, axis) THEN toUnix(searchVal) ELSE searchVal>>

\* <<axisVals, searchVal>> as numbers
prepareForAxisArraySearch(domain, axis, searchVal) ==
    LET axisVals == domain.values[axis] IN
    IF isISODateAxis(domain, axis)
    THEN <<[i \in 1..Len(axisVals) |-> toUnix(axisVals[i])], toUnix(searchVal)>>
    ELSE IF isLongitudeAxis(domain, axis)
    THEN <<axisVals, getLongitudeWrapper(domain, axis, searchVal)>>
    ELSE <<axisVals, searchVal>>

\* no search: the first axis value is taken
getClosestIndexFirst(domain, axis, val) == 1

getClosestIndex(domain, axis, val) ==
    LET p == prepareForAxisArraySearch(domain, axis, val)
    IN  getClosestIndexArr(p[1], p[2])

\* an extent that every target lies in
getAxisExtentUnbounded(vals) == <<-100000, 100000>>

\* <<2 * min, 2 * max>> of the extent: the axis range extended by half a cell at
\* each end (doubled, so that half a cell stays an integer)
getAxisExtent(vals) ==
    LET first == vals[1]
        last == vals[Len(vals)]
        min == IF first > last THEN last ELSE first
        max == IF first > last THEN first ELSE last
        cell == IF Len(vals) > 1 THEN Abs(vals[1] - vals[2]) ELSE 0
    IN  <<2 * min - cell, 2 * max + cell>>

----------------------------------------------------------------------------
\* Dependency repair (util.js 465-474)

\* !apiConstraints[concept_]
Falsy(o, k) == ~Has(o, k) \/ (IsPrimitive(Get(o, k)) /\ Get(o, k).v[1] = 0)

RECURSIVE RepairFrom(_, _, _, _, _)
RepairFrom(concepts, i, plan, capabilities, axes) ==
    IF i > Len(concepts) THEN plan
    ELSE LET concept == concepts[i]
             depends == CapGet(capabilities, concept).dependency
             missing == \E j \in 1..Len(depends) : Falsy(plan.api, depends[j])
             named == SelectSeq(axes, LAMBDA pr : pr[2] = concept)
             axis == IF Len(named) > 0 THEN named[1][1] ELSE Undef
         IN  IF missing
             THEN RepairFrom(concepts, i + 1,
                             [plan EXCEPT !.api = Del(plan.api, concept),
                                          !.local = Put(plan.local, axis, Get(plan.api, concept))],
                             capabilities, axes)
             ELSE RepairFrom(concepts, i + 1, plan, capabilities, axes)

\* axisConcepts as the object it is: <<axis, concept>> in the order of domain.axes
AxisConceptPairs(domain) ==
    [i \in 1..Len(domain.axes) |-> <<domain.axes[i], ConceptOf(domain, domain.axes[i])>>]

\* no repair: the plan of the per-axis pass is used as it is
toLocalConstraintsNoRepair(plan, capabilities, domain) == plan

toLocalConstraintsIfDependencyMissing(plan, capabilities, domain) ==
    RepairFrom(Keys(plan.api), 1, plan, capabilities, AxisConceptPairs(domain))

----------------------------------------------------------------------------
\* The per-axis passes.  A decision is what one turn of the loop over
\* Object.keys(constraints) concludes: the constraint as rewritten, useApi, or
\* the error thrown.  A plan is {apiConstraints, localConstraints}, or the error
\* that ended the pass.

NoErr == "none"
ExtentError == "start or stop must be inside the axis extent"
TypeError == "TypeError"

Decision(axis, concept, err, useApi, constraint) ==
    [axis |-> axis, concept |-> concept, err |-> err, useApi |-> useApi,
     constraint |-> constraint]

EmptyPlan == [err |-> NoErr, api |-> <<>>, local |-> <<>>]

RECURSIVE AssembleFrom(_, _, _)
AssembleFrom(decisions, i, plan) ==
    IF i > Len(decisions) THEN plan
    ELSE LET d == decisions[i] IN
         IF d.err # NoErr THEN [plan EXCEPT !.err = d.err]
         ELSE IF d.useApi
         THEN AssembleFrom(decisions, i + 1,
                           [plan EXCEPT !.api = Put(plan.api, d.concept, d.constraint)])
         ELSE AssembleFrom(decisions, i + 1,
                           [plan EXCEPT !.local = Put(plan.local, d.axis, d.constraint)])

Assemble(decisions) == AssembleFrom(decisions, 1, EmptyPlan)

\* wrappedSubsetByValue, one axis (util.js 325-393).  undefIdx is the index
\* getClosestIndex returns for the search value undefined (line 338 reads
\* constraint.target of a primitive): no index, the first or the last.
ByValueAxis(domain, caps, axis, constraint, undefIdx) ==
    LET concept == ConceptOf(domain, axis)
        cap == CapGet(caps, concept)
        isTimeString == isISODateAxis(domain, axis)
        values == domain.values[axis]
        api(c) == Decision(axis, concept, NoErr, TRUE, c)
        local == Decision(axis, concept, NoErr, FALSE, constraint)
    IN  IF ~cap.def THEN local
        ELSE IF IsPrimitive(constraint) THEN
            IF cap.identity THEN api(constraint)
            ELSE IF cap.start /\ cap.stop THEN
                LET idx == CASE undefIdx = "none" -> 0
                             [] undefIdx = "first" -> 1
                             [] undefIdx = "last" -> Len(values)
                    c == constraint.v[1]
                    same == /\ idx # 0
                            /\ IF isTimeString THEN toUnix(values[idx]) = toUnix(c)
                                               ELSE values[idx] = c
                IN  IF same THEN api(StartStop(c, c)) ELSE local
            ELSE local
        ELSE IF HasTarget(constraint) THEN
            IF cap.target THEN api(constraint)
            ELSE IF cap.start /\ cap.stop THEN
                LET p == prepareForAxisArraySearch(domain, axis, constraint.v[1])
                    ext == getAxisExtent(p[1])
                    val == values[getClosestIndex(domain, axis, constraint.v[1])]
                IN  IF ext[1] <= 2 * p[2] /\ 2 * p[2] <= ext[2]
                    THEN api(StartStop(val, val))
                    ELSE local
            ELSE local
        ELSE
            IF cap.start /\ cap.stop THEN
                LET ps == prepareForAxisArraySearch(domain, axis, constraint.v[1])
                    pe == prepareForAxisArraySearch(domain, axis, constraint.v[2])
                    vals == ps[1]
                    ext == getAxisExtent(vals)
                IN  IF 2 * pe[2] < ext[1] \/ 2 * ps[2] > ext[2]
                    THEN Decision(axis, concept, ExtentError, FALSE, constraint)
                    ELSE api(StartStop(values[getClosestIndexArr(vals, ps[2])],
                                       values[getClosestIndexArr(vals, pe[2])]))
            ELSE local

ByValueDecisions(domain, caps, constraints, undefIdx) ==
    [i \in 1..Len(constraints) |->
        ByValueAxis(domain, caps, constraints[i][1], constraints[i][2], undefIdx)]

\* the object handed to the API for generic index subsetting: all constraints
IndexObj(constraints) == [k |-> "index", v |-> constraints]

\* a step of 1 is emulated like no step
ByIndexAxisUnitStep(domain, caps, axis, constraint) ==
    LET concept == ConceptOf(domain, axis)
        cap == CapGet(caps, concept)
        values == domain.values[axis]
        first == values[constraint.v[1] + 1]
    IN  IF ~(cap.def /\ cap.start /\ cap.stop)
        THEN Decision(axis, concept, NoErr, FALSE, constraint)
        ELSE IF IsPrimitive(constraint)
        THEN Decision(axis, concept, NoErr, TRUE, StartStop(first, first))
        ELSE IF constraint.v[3] \in {0, 1}
        THEN Decision(axis, concept, NoErr, TRUE,
                      StartStop(first, values[constraint.v[2] + 1]))
        ELSE Decision(axis, concept, NoErr, FALSE, constraint)

\* wrappedSubsetByIndex, one axis of the emulation (util.js 225-254)
ByIndexAxis(domain, caps, axis, constraint) ==
    LET concept == ConceptOf(domain, axis)
        cap == CapGet(caps, concept)
        values == domain.values[axis]
        api(c) == Decision(axis, concept, NoErr, TRUE, c)
        local == Decision(axis, concept, NoErr, FALSE, constraint)
    IN  IF ~cap.def THEN local
        ELSE IF IsPrimitive(constraint) THEN
            IF cap.start /\ cap.stop
            THEN api(StartStop(values[constraint.v[1] + 1], values[constraint.v[1] + 1]))
            ELSE local
        ELSE IF constraint.v[3] = 0 THEN
            IF cap.start /\ cap.stop
            THEN api(StartStop(values[constraint.v[1] + 1], values[constraint.v[2] + 1]))
            ELSE local
        ELSE local

ByIndexPlan(domain, caps, constraints) ==
    IF CapGet(caps, "index").def
    THEN [EmptyPlan EXCEPT !.api = << <<"index", IndexObj(constraints)>> >>]
    ELSE Assemble([i \in 1..Len(constraints) |->
                      ByIndexAxis(domain, caps, constraints[i][1], constraints[i][2])])

\* QueryProxy._doExecute, one filter axis (part_002 133-141)
FilterAxis(domain, filterCaps, axis, constraint) ==
    LET concept == ConceptOf(domain, axis)
        cap == CapGet(filterCaps, concept)
    IN  Decision(axis, concept, NoErr, cap.def /\ cap.start /\ cap.stop, constraint)

\* QueryProxy._doExecute, one subset axis (part_002 144-164); 'target' in constraint
\* throws a TypeError when constraint is a primitive
QuerySubsetAxis(domain, subsetCaps, axis, constraint) ==
    LET concept == ConceptOf(domain, axis)
        cap == CapGet(subsetCaps, concept)
        decide(useApi) == Decision(axis, concept, NoErr, useApi, constraint)
    IN  IF ~cap.def THEN decide(FALSE)
        ELSE IF IsPrimitive(constraint) /\ cap.identity THEN decide(TRUE)
        ELSE IF IsPrimitive(constraint)
        THEN Decision(axis, concept, TypeError, FALSE, constraint)
        ELSE IF HasTarget(constraint) /\ cap.target THEN decide(TRUE)
        ELSE IF HasStartStop(constraint) /\ cap.start /\ cap.stop THEN decide(TRUE)
        ELSE decide(FALSE)

----------------------------------------------------------------------------
\* URL and headers (part_001 477-654).  The expanded URL is modelled by the
\* template variables it was expanded with, <<URL property, value>>, each value
\* a tuple of the numbers or time strings written into it.

\* Number.toString of an integer: its decimal digits, read here as the integer
getNumberString(num) == num

getBboxString(bbox) == [i \in 1..Len(bbox) |-> getNumberString(bbox[i])]

Vars(err, vars) == [err |-> err, vars |-> vars]

\* one `if (options.<key>)` block: r so far, the block's result when the key is set
Then(r, present, block) == IF r.err # NoErr \/ ~present THEN r ELSE block

\* the keys left in options after the blocks have deleted theirs
checkEmpty(r, left, err) == IF r.err = NoErr /\ left # {} THEN Vars(err, r.vars) ELSE r

\* the time range is written with its ends exchanged
getFilterTemplateVarsSwapped(props, options) ==
    IF Has(options, "time")
    THEN Vars(NoErr, << <<"filterTimeStart", <<Get(options, "time").v[2]>> >>,
                        <<"filterTimeEnd", <<Get(options, "time").v[1]>> >> >>)
    ELSE Vars(NoErr, <<>>)

getFilterTemplateVars(props, options) ==
    LET time == Then(Vars(NoErr, <<>>), Has(options, "time"),
                     IF ~supportsTimeFiltering(props)
                     THEN Vars("Time filtering not supported!", <<>>)
                     ELSE Vars(NoErr, << <<"filterTimeStart", <<Get(options, "time").v[1]>> >>,
                                         <<"filterTimeEnd", <<Get(options, "time").v[2]>> >> >>))
        vertical == Then(time, Has(options, "vertical"),
                     IF ~supportsVerticalFiltering(props)
                     THEN Vars("Vertical filtering not supported!", time.vars)
                     ELSE Vars(NoErr, time.vars \o
                            << <<"filterVerticalStart", <<getNumberString(Get(options, "vertical").v[1])>> >>,
                               <<"filterVerticalEnd", <<getNumberString(Get(options, "vertical").v[2])>> >> >>))
        x == Then(vertical, Has(options, "x"),
                     IF ~supportsBboxFiltering(props)
                     THEN Vars("BBOX filtering not supported!", vertical.vars)
                     ELSE IF ~Has(options, "y") THEN Vars(TypeError, vertical.vars)
                     ELSE Vars(NoErr, vertical.vars \o
                            << <<"filterBbox",
                                 getBboxString(<<Get(options, "x").v[1], Get(options, "y").v[1],
                                                 Get(options, "x").v[2], Get(options, "y").v[2]>>)>> >>))
        left == KeySet(options) \ ({"time", "vertical"} \cup
                                   IF Has(options, "x") THEN {"x", "y"} ELSE {})
    IN  checkEmpty(x, left, "Unrecognized filter options")

\* options.vertical.target and options.vertical.start are tested for truthiness
Truthy(c, member) ==
    CASE member = "target" -> HasTarget(c) /\ c.v[1] # 0
      [] member = "start" -> HasStartStop(c) /\ c.v[1] # 0

\* getIndexSubsetString: the third branch reads the undeclared name stop
getIndexSubsetStringReturns(spec) ==
    \/ IsPrimitive(spec)
    \/ spec.v[1] = spec.v[2] /\ spec.v[3] \in {0, 1}

getSubsetTemplateVars(props, options) ==
    LET time == Then(Vars(NoErr, <<>>), Has(options, "time"),
                     IF ~supportsTimeSubsetting(props)
                     THEN Vars("Time subsetting not supported!", <<>>)
                     ELSE Vars(NoErr, << <<"subsetTimeStart", <<Get(options, "time").v[1]>> >>,
                                         <<"subsetTimeEnd", <<Get(options, "time").v[2]>> >> >>))
        x == Then(time, Has(options, "x"),
                     IF ~supportsBboxSubsetting(props)
                     THEN Vars("BBOX subsetting not supported!", time.vars)
                     ELSE IF ~Has(options, "y") THEN Vars(TypeError, time.vars)
                     ELSE Vars(NoErr, time.vars \o
                            << <<"subsetBbox",
                                 getBboxString(<<Get(options, "x").v[1], Get(options, "y").v[1],
                                                 Get(options, "x").v[2], Get(options, "y").v[2]>>)>> >>))
        vtarget == Then(x, Has(options, "vertical") /\ Truthy(Get(options, "vertical"), "target"),
                     IF ~supportsVerticalTargetSubsetting(props)
                     THEN Vars("vertical target subsetting not supported!", x.vars)
                     ELSE Vars(NoErr, x.vars \o
                            << <<"subsetVerticalTarget", <<getNumberString(Get(options, "vertical").v[1])>> >> >>))
        vertical == Then(vtarget, Has(options, "vertical") /\ Truthy(Get(options, "vertical"), "start"),
                     IF ~supportsVerticalSubsetting(props)
                     THEN Vars("vertical subsetting not supported!", vtarget.vars)
                     ELSE Vars(NoErr, vtarget.vars \o
                            << <<"subsetVerticalStart", <<getNumberString(Get(options, "vertical").v[1])>> >>,
                               <<"subsetVerticalEnd", <<getNumberString(Get(options, "vertical").v[2])>> >> >>))
        \* the index block sets its variable and leaves options.index in place
        index == Then(vertical, Has(options, "index"),
                     IF ~supportsIndexSubsetting(props)
                     THEN Vars("index subsetting not supported!", vertical.vars)
                     ELSE IF \E i \in 1..Len(Get(options, "index").v) :
                                ~getIndexSubsetStringReturns(Get(options, "index").v[i][2])
                     THEN Vars("ReferenceError", vertical.vars)
                     ELSE Vars(NoErr, vertical.vars \o
                            << <<"subsetIndex", Keys(Get(options, "index").v)>> >>))
        left == KeySet(options) \ ({"time", "vertical"} \cup
                                   IF Has(options, "x") THEN {"x", "y"} ELSE {})
    IN  checkEmpty(index, left, "Unrecognized subset options")

NoHeaders == [prefer |-> FALSE, include |-> {}]

\* embed is the embed object: <<part, requested>> pairs
getIncludeDomainAndRangeHeaders(supportsPreferHeaders, embed) ==
    IF ~supportsPreferHeaders THEN NoHeaders
    ELSE [prefer |-> TRUE,
          include |-> {part \in {"domain", "range"} : Has(embed, part) /\ Get(embed, part)}]

\* getUrlAndHeaders({subset, filter, embed}); this.urlTemplate is undefined when
\* the document had no IRI template
getUrlAndHeaders(api, subset, filter, embed) ==
    LET s == getSubsetTemplateVars(api.supportedUrlProps, subset)
        f == getFilterTemplateVars(api.supportedUrlProps, filter)
    IN  IF s.err # NoErr THEN [err |-> s.err, url |-> <<>>, headers |-> NoHeaders]
        ELSE IF f.err # NoErr THEN [err |-> f.err, url |-> <<>>, headers |-> NoHeaders]
        ELSE IF ~api.hasUrlTemplate THEN [err |-> TypeError, url |-> <<>>, headers |-> NoHeaders]
        ELSE [err |-> NoErr, url |-> s.vars \o f.vars,
              headers |-> getIncludeDomainAndRangeHeaders(api.supportsPreferHeaders, embed)]

----------------------------------------------------------------------------
\* The bounded inputs

\* keys of one constraints object passed to subsetByValue / subsetByIndex
MaxKeys == 2

\* filter / subset / embed calls chained on one query
MaxChain == 2

\* results of a query or a paging link that the caller goes on with
MaxPages == 2

\* referencing entries of a domain whose axis concepts are resolved
MaxRefs == 2

\* calls of getAxisConcepts on one domain
MaxCalls == 2

\* the values a caller asks for on an axis: below, on, between and above the
\* axis values, a longitude outside the axis window, a second spelling of a time
QueryVals(axis, values) ==
    CASE axis = "x" -> {-120}
      [] axis = "y" -> {4}
      [] axis = "z" -> IF Len(values) > 1 THEN {-20, 0, 12, 100} ELSE {5}
      [] axis = "t" -> {5, 20}
      [] axis = "t2" -> {4}
      [] OTHER -> {1}

ValueConstraints(domain, axis) ==
    LET Q == QueryVals(axis, domain.values[axis])
    IN  {Exact(v) : v \in Q} \cup {Nearest(v) : v \in Q}
        \cup {StartStop(p[1], p[2]) : p \in {q \in Q \X Q : q[1] <= q[2]}}
        \cup {Null}

IndexConstraints(domain, axis) ==
    LET last == Len(domain.values[axis]) - 1
    IN  {Exact(0), Slice(0, last, 0), Slice(0, last, 1), Slice(0, last, 2), Null}

\* every object of at most n keys over axes, with the constraints Choices gives
RECURSIVE ObjectsOver(_, _, _, _)
ObjectsOver(domain, axes, n, byIndex) ==
    IF n = 0 THEN {<<>>}
    ELSE {<<>>} \cup
         UNION {UNION {{<< <<a, c>> >> \o rest :
                            rest \in ObjectsOver(domain, axes \ {a}, n - 1, byIndex)} :
                       c \in IF byIndex THEN IndexConstraints(domain, a)
                                        ELSE ValueConstraints(domain, a)} :
                a \in axes}

ConstraintObjects(domain, byIndex) ==
    ObjectsOver(domain, AxisSet(domain), MaxKeys, byIndex) \ {<<>>}

\* the metadata documents: which URL properties the IRI template maps, whether
\* the server can include domain and range, whether the collection is paged
Ld(template, props, canInclude, paged, view) ==
    [template |-> template, props |-> props, canInclude |-> canInclude,
     paged |-> paged, view |-> view]

NoLd == Ld(FALSE, {}, FALSE, FALSE, NoLinks)

SomeLinks == [first |-> TRUE, previous |-> FALSE, next |-> TRUE, last |-> TRUE]

CoverageLds ==
    {NoLd,
     Ld(TRUE, {"subsetBbox"}, FALSE, FALSE, NoLinks),
     Ld(TRUE, {"subsetVerticalStart", "subsetVerticalEnd"}, FALSE, FALSE, NoLinks),
     Ld(TRUE, {"subsetVerticalTarget"}, FALSE, FALSE, NoLinks),
     Ld(TRUE, {"subsetVerticalStart", "subsetVerticalEnd", "subsetVerticalTarget"},
        FALSE, FALSE, NoLinks),
     Ld(TRUE, {"subsetTimeStart", "subsetTimeEnd"}, FALSE, FALSE, NoLinks),
     Ld(TRUE, {"subsetTimeStart"}, FALSE, FALSE, NoLinks),
     Ld(TRUE, {"subsetIndex"}, FALSE, FALSE, NoLinks),
     Ld(TRUE, {"subsetBbox", "subsetVerticalStart", "subsetVerticalEnd",
               "subsetTimeStart", "subsetTimeEnd"}, TRUE, FALSE, NoLinks)}

CollectionLds ==
    {NoLd,
     Ld(FALSE, {}, TRUE, FALSE, NoLinks),
     Ld(TRUE, {"filterTimeStart", "filterTimeEnd"}, FALSE, TRUE, SomeLinks),
     Ld(TRUE, {"filterBbox"}, TRUE, FALSE, NoLinks),
     Ld(TRUE, {"filterVerticalStart", "filterVerticalEnd", "subsetBbox"}, FALSE, FALSE, NoLinks),
     Ld(TRUE, {"subsetVerticalStart", "subsetVerticalEnd", "subsetVerticalTarget",
               "subsetTimeStart", "subsetTimeEnd"}, TRUE, TRUE, SomeLinks)}

\* a data object: a coverage with its domain, or a collection with a domain
\* template, or else with coverages whose first one has the domain
DataObjects ==
    {[kind |-> "coverage", id |-> TRUE, ld |-> ld, domain |-> d,
      domainTemplate |-> FALSE, coverages |-> 0] : ld \in CoverageLds, d \in Domains}
    \cup
    {[kind |-> "coverage", id |-> FALSE, ld |-> NoLd, domain |-> d,
      domainTemplate |-> FALSE, coverages |-> 0] : d \in Domains}
    \cup
    {[kind |-> "collection", id |-> TRUE, ld |-> ld, domain |-> d,
      domainTemplate |-> t, coverages |-> 1] :
        ld \in CollectionLds, d \in Domains, t \in BOOLEAN}
    \cup
    {[kind |-> "collection", id |-> FALSE, ld |-> NoLd, domain |-> d,
      domainTemplate |-> t, coverages |-> 1] : d \in Domains, t \in BOOLEAN}
    \cup
    {[kind |-> "collection", id |-> TRUE, ld |-> NoLd, domain |-> DomGrid,
      domainTemplate |-> FALSE, coverages |-> 0]}

\* what options.loader is
LoaderTypes == {"function", "undefined", "string"}

\* the errors the loader's promise may reject with
LoaderErrors == {"NetworkError", "ParseError"}

----------------------------------------------------------------------------
\* What one call does before it returns or hands over to the loader

Plans(filter, subset, embed) == [filter |-> filter, subset |-> subset, embed |-> embed]

NoPlans == Plans(EmptyPlan, EmptyPlan, <<>>)

\* a call of the data object's own (local) operation
LocalCall(on, method, filter, subset) ==
    [on |-> on, method |-> method, filter |-> filter, subset |-> subset]

\* a call of the loader
Request(url, headers) == [url |-> url, headers |-> headers]

\* planned: the per-axis pass and the repair ran to their end; pre / plan: the
\* plans before and after repair; err: the error thrown; request: the loader
\* call made; local: the local call made; ret: the object returned
Outcome(planned, pre, plan, err, request, local, ret) ==
    [planned |-> planned, pre |-> pre, plan |-> plan, err |-> err,
     request |-> request, local |-> local, ret |-> ret]

Failed(planned, pre, plan, err) == Outcome(planned, pre, plan, err, <<>>, <<>>, "")

cleanedConstraints(constraints) == SelectSeq(constraints, LAMBDA p : p[2] # Null)

\* any constraint that is left requires subsetting
requiresSubsettingAny(domain, constraints) == Len(constraints) > 0

requiresSubsetting(domain, constraints) ==
    \E i \in 1..Len(constraints) : Len(domain.values[constraints[i][1]]) > 1

\* Object.keys(apiConstraints.subset).length === 0
RemoteEmpty(plan) == Len(plan.api) = 0

\* the remaining constraints are never looked at
LocalLeftNever(plan) == FALSE

\* Object.keys(localSubsetConstraints).length > 0
LocalLeft(plan) == Len(plan.local) > 0

\* the remaining constraints are applied without waiting for the loader
RequestedEager(pre, plan, u) ==
    IF u.err # NoErr THEN Failed(TRUE, pre, plan, u.err)
    ELSE Outcome(TRUE, pre, plan, NoErr, <<Request(u.url, u.headers)>>,
                 <<LocalCall("fetched", "eager", plan.filter.local, plan.subset.local)>>, "")

\* url = getUrlAndHeaders(...); loader(url, headers)
Requested(pre, plan, u) ==
    IF u.err # NoErr THEN Failed(TRUE, pre, plan, u.err)
    ELSE Outcome(TRUE, pre, plan, NoErr, <<Request(u.url, u.headers)>>, <<>>, "")

\* the function wrappedSubsetByValue / wrappedSubsetByIndex returns, up to the
\* loader call (util.js 198-279, 292-403)
SubsetOutcome(method, domain, d, constraints, undefIdx) ==
    LET cs == cleanedConstraints(constraints) IN
    IF ~requiresSubsetting(domain, cs)
    THEN Outcome(FALSE, NoPlans, NoPlans, NoErr, <<>>, <<>>, "wrappedCoverage")
    ELSE IF ~d.capabilities.def THEN Failed(FALSE, NoPlans, NoPlans, TypeError)
    ELSE LET caps == d.capabilities.subset
             pass == IF method = "subsetByValue"
                     THEN Assemble(ByValueDecisions(domain, caps, cs, undefIdx))
                     ELSE ByIndexPlan(domain, caps, cs)
             repaired == toLocalConstraintsIfDependencyMissing(pass, caps, domain)
             pre == Plans(EmptyPlan, pass, <<>>)
             plan == Plans(EmptyPlan, repaired, <<>>)
         IN  IF pass.err # NoErr THEN Failed(FALSE, NoPlans, NoPlans, pass.err)
             ELSE IF RemoteEmpty(repaired)
             THEN Outcome(TRUE, pre, plan, NoErr, <<>>,
                          <<LocalCall("original", method, <<>>, cs)>>, "local(original)")
             ELSE Requested(pre, plan, getUrlAndHeaders(d, repaired.api, <<>>, <<>>))

\* the continuation of the loader's promise (util.js 279-287, 403-411;
\* part_002 178-191, 45): what is called and what is returned
AfterLoad(name, plan) ==
    IF name \in {"subsetByValue", "subsetByIndex"} /\ LocalLeft(plan.subset)
    THEN [local |-> <<LocalCall("fetched", name, <<>>, plan.subset.local)>>,
          wraps |-> 0, ret |-> "local(fetched)"]
    ELSE IF name = "execute" /\ (LocalLeft(plan.subset) \/ LocalLeft(plan.filter))
    THEN [local |-> <<LocalCall("fetched", name, plan.filter.local, plan.subset.local)>>,
          wraps |-> 0, ret |-> "local(fetched)"]
    ELSE [local |-> <<>>, wraps |-> 1, ret |-> "wrap(fetched)"]

\* mergeInto(inputObj, targetObj)
RECURSIVE mergeFrom(_, _, _)
mergeFrom(inputObj, i, targetObj) ==
    IF i > Len(inputObj) THEN targetObj
    ELSE mergeFrom(inputObj, i + 1, Put(targetObj, inputObj[i][1], inputObj[i][2]))

\* a key the target already has keeps its value
mergeIntoKeepsFirst(inputObj, targetObj) == mergeFrom(targetObj, 1, inputObj)

mergeInto(inputObj, targetObj) == mergeFrom(inputObj, 1, targetObj)

\* the filter, subset and embed objects a caller passes to a query: one axis
\* with a start/stop range, an identity value or a target; one or both parts
QueryPair(domain, axis) ==
    LET values == domain.values[axis]
    IN  IF Len(values) > 1 THEN <<values[1], values[2]>> ELSE <<values[1], values[1]>>

FilterSpecs(domain) ==
    {<< <<a, StartStop(Min(Range(QueryPair(domain, a))), Max(Range(QueryPair(domain, a))))>> >> :
        a \in AxisSet(domain)}

\* the axis a target or an identity value is asked for: the last one
PointAxes(domain) == {domain.axes[Len(domain.axes)]}

SubsetSpecs(domain) ==
    FilterSpecs(domain)
    \cup {<< <<a, Nearest(QueryPair(domain, a)[1] + 1)>> >> : a \in PointAxes(domain)}
    \cup {<< <<a, Exact(QueryPair(domain, a)[1])>> >> : a \in PointAxes(domain)}

EmbedSpecs ==
    {<< <<"domain", TRUE>> >>, << <<"range", TRUE>>, <<"domain", TRUE>> >>}

\* Object.keys(apiConstraints.filter).length === 0 && ... subset ... && ... embed
QueryRemoteEmpty(plan) ==
    RemoteEmpty(plan.filter) /\ RemoteEmpty(plan.subset) /\ Len(plan.embed) = 0

\* embedCaps.domain && embedCaps.range ? this._embed : {}
EmbedPlan(embedCaps, embed) == IF embedCaps.domain /\ embedCaps.range THEN embed ELSE <<>>

\* this._query.execute()
LocalQuery(q, planned, pre, plan) ==
    Outcome(planned, pre, plan, NoErr, <<>>,
            <<LocalCall("original", "execute", q.filter, q.subset)>>, "local(original)")

\* QueryProxy._doExecute(domainTemplate) up to the loader call (part_002 108-178)
doExecute(domain, d, q) ==
    IF ~d.capabilities.def THEN Failed(FALSE, NoPlans, NoPlans, TypeError)
    ELSE LET caps == d.capabilities
             f == Assemble([i \in 1..Len(q.filter) |->
                      FilterAxis(domain, caps.filter, q.filter[i][1], q.filter[i][2])])
             s == Assemble([i \in 1..Len(q.subset) |->
                      QuerySubsetAxis(domain, caps.subset, q.subset[i][1], q.subset[i][2])])
             e == EmbedPlan(caps.embed, q.embed)
             pre == Plans(f, s, e)
             plan == Plans(toLocalConstraintsIfDependencyMissing(f, caps.filter, domain),
                           toLocalConstraintsIfDependencyMissing(s, caps.subset, domain), e)
         IN  IF s.err # NoErr THEN Failed(FALSE, NoPlans, NoPlans, s.err)
             ELSE IF QueryRemoteEmpty(plan) THEN LocalQuery(q, TRUE, pre, plan)
             ELSE Requested(pre, plan,
                            getUrlAndHeaders(d, plan.subset.api, plan.filter.api, plan.embed))

\* QueryProxy.execute() (part_002 94-106)
execute(collection, d, q) ==
    IF collection.domainTemplate \/ collection.coverages > 0
    THEN doExecute(collection.domain, d, q)
    ELSE LocalQuery(q, FALSE, NoPlans, NoPlans)

\* An options object is the caller's own object, whose headers property (absent
\* or an object) is read through caller, or a copy that getOptionsWithHeaders
\* gave a headers object of its own.
CallerOptions == [own |-> FALSE, headers |-> NoHeaders]

OwnOptions(headers) == [own |-> TRUE, headers |-> headers]

\* !!options.headers
HasHeaders(opts, caller) == opts.own \/ caller.has

\* options.headers, read as no headers when absent
OptionHeaders(opts, caller) ==
    IF opts.own THEN opts.headers
    ELSE IF caller.has THEN caller.headers ELSE NoHeaders

\* mergeInto(headers, options.headers) on header objects: Prefer is the one key
MergeHeaders(headers, target) == IF headers.prefer THEN headers ELSE target

\* getOptionsWithHeaders(options, headers) (part_002 488-495): the copy shares
\* the headers object of options when there is one, and the merge writes into
\* it.  caller, held: the two objects as they are afterwards; made: the copy.
getOptionsWithHeaders(opts, caller, headers) ==
    IF opts.own
    THEN [caller |-> caller,
          held |-> OwnOptions(MergeHeaders(headers, opts.headers)),
          made |-> OwnOptions(MergeHeaders(headers, opts.headers))]
    ELSE IF caller.has
    THEN [caller |-> [caller EXCEPT !.headers = MergeHeaders(headers, caller.headers)],
          held |-> opts,
          made |-> CallerOptions]
    ELSE [caller |-> caller,
          held |-> opts,
          made |-> OwnOptions(MergeHeaders(headers, NoHeaders))]

\* the collection the loader resolves with: a page of the same collection
\* behind the same API, with a paging view (without one it is used like the
\* collection first wrapped)
Pages(collection) ==
    {[collection EXCEPT !.ld = [collection.ld EXCEPT !.paged = TRUE, !.view = SomeLinks]]}

\* the loader is not looked at
LoaderUnchecked(opts) == TRUE

\* typeof options.loader === 'function'
LoaderIsFunction(opts) == opts.loader = "function"

----------------------------------------------------------------------------
\* The state

VARIABLES
    data,           \* the data object handed to wrap
    options,        \* the options handed to wrap
    wrapped,        \* "no", "yes" (wrap resolved), "threw"
    api,            \* the API object discovery built for the wrapped object
    query,          \* the QueryProxy: its accumulators and what it forwarded
    op,             \* the call in progress or last finished
    loader,         \* the loader's promise: "idle", "outstanding", "resolved", or the
                    \* error it rejected with
    loaderCalls,    \* the loader calls of this call
    localCalls,     \* the local operations this call invoked
    wrapCalls,      \* how often this call invoked wrap on a loaded object
    discoverCalls,  \* how often discovery has started
    wrapOptions,    \* the options objects: held by the wrapped object in hand, made
                    \* for the result of the last call; and what is remembered of
                    \* the past: the headers the query sent whose result the object
                    \* in hand is, the number of results the caller went on with
    result          \* how the call ended: [k |-> "none" | "resolved" | "rejected" | "threw", v]

vars == <<data, options, wrapped, api, query, op, loader, loaderCalls, localCalls,
          wrapCalls, discoverCalls, wrapOptions, result>>

NoQuery == [made |-> FALSE, filter |-> <<>>, subset |-> <<>>, embed |-> <<>>,
            forwarded |-> <<>>]

Op(name, input, o) ==
    [name |-> name, input |-> input, planned |-> o.planned, pre |-> o.pre, plan |-> o.plan]

NoOp == Op("none", <<>>, Failed(FALSE, NoPlans, NoPlans, NoErr))

Result(k, v) == [k |-> k, v |-> v]

\* a rejection is caught and the call resolves
RejectionSwallowed(e) == Result("resolved", "wrap(fetched)")

\* load(url, headers).then(onFulfilled): a rejection passes through
Rejection(e) == Result("rejected", e)

NoneSent == [any |-> FALSE, headers |-> NoHeaders]

WrapOptions(held, made, sent, pages) ==
    [held |-> held, made |-> made, sent |-> sent, pages |-> pages]

Init ==
    /\ data \in DataObjects
    /\ options \in [loader : LoaderTypes, has : BOOLEAN, headers : {NoHeaders}]
    /\ wrapOptions = WrapOptions(CallerOptions, CallerOptions, NoneSent, 0)
    /\ wrapped = "no"
    /\ api = NewAPI(FALSE, NoLd)
    /\ query = NoQuery
    /\ op = NoOp
    /\ loader = "idle"
    /\ loaderCalls = <<>>
    /\ localCalls = <<>>
    /\ wrapCalls = 0
    /\ discoverCalls = 0
    /\ result = Result("none", "")

\* wrap(data, options) (util.js 35-44, 46-72, 189-196)
Wrap ==
    /\ wrapped = "no"
    /\ op' = Op("wrap", <<>>, Failed(FALSE, NoPlans, NoPlans, NoErr))
    /\ IF LoaderIsFunction(options)
       THEN /\ wrapped' = "yes"
            /\ api' = discover(data)
            /\ discoverCalls' = discoverCalls + 1
            /\ result' = Result("resolved", "wrapped")
       ELSE /\ wrapped' = "threw"
            /\ result' = Result("threw", "options.loader must be a function")
            /\ UNCHANGED <<api, discoverCalls>>
    /\ UNCHANGED <<data, options, query, loader, loaderCalls, localCalls, wrapCalls,
                   wrapOptions>>

\* a call starts: o is what it does before it returns; sync tells whether an
\* error is thrown to the caller or rejects the returned promise.  A call on a
\* coverage leaves nothing behind that a later call reads, so one call per
\* wrapped coverage is followed; on a collection calls follow one another: a
\* query is executed again, or the caller turns to the result or back to the
\* collection before the next call.
Ready == wrapped = "yes" /\ op.name = "wrap"

Idle == wrapped = "yes" /\ loader # "outstanding"

Begin(name, input, sync, o) ==
    /\ op' = Op(name, input, o)
    /\ loaderCalls' = o.request
    /\ localCalls' = o.local
    /\ wrapCalls' = 0
    /\ loader' = IF o.request # <<>> THEN "outstanding" ELSE "idle"
    /\ result' = IF o.request # <<>> THEN Result("none", "")
                 ELSE IF o.err # NoErr
                 THEN Result(IF sync THEN "threw" ELSE "rejected", o.err)
                 ELSE Result("resolved", o.ret)
    /\ UNCHANGED <<data, options, wrapped, api, discoverCalls, wrapOptions>>

UndefIdx == {"none", "first", "last"}

\* wrappedCoverage.subsetByValue(constraints)
SubsetByValue ==
    /\ Ready
    /\ data.kind = "coverage"
    /\ \E constraints \in ConstraintObjects(data.domain, FALSE), u \in UndefIdx :
          \E o \in {SubsetOutcome("subsetByValue", data.domain, api, constraints, u)} :
              Begin("subsetByValue", constraints, FALSE, o)
    /\ UNCHANGED query

\* wrappedCoverage.subsetByIndex(constraints)
SubsetByIndex ==
    /\ Ready
    /\ data.kind = "coverage"
    /\ \E constraints \in ConstraintObjects(data.domain, TRUE) :
          \E o \in {SubsetOutcome("subsetByIndex", data.domain, api, constraints, "none")} :
              Begin("subsetByIndex", constraints, FALSE, o)
    /\ UNCHANGED query

\* the loader's promise resolves with the loaded object; a query result is
\* wrapped with getOptionsWithHeaders(this._options, headers), everything else
\* with the options in hand
LoaderResolve ==
    /\ loader = "outstanding"
    /\ loader' = "resolved"
    /\ LET after == AfterLoad(op.name, op.plan)
           carry == getOptionsWithHeaders(wrapOptions.held, options, loaderCalls[1].headers)
       IN  /\ localCalls' = localCalls \o after.local
           /\ wrapCalls' = wrapCalls + after.wraps
           /\ result' = Result("resolved", after.ret)
           /\ IF op.name = "execute" /\ after.wraps > 0
              THEN /\ options' = carry.caller
                   /\ wrapOptions' = [wrapOptions EXCEPT !.held = carry.held,
                                                         !.made = carry.made]
              ELSE /\ options' = options
                   /\ wrapOptions' = [wrapOptions EXCEPT !.made = wrapOptions.held]
    /\ UNCHANGED <<data, wrapped, api, query, op, loaderCalls, discoverCalls>>

\* the caller goes on with the wrapped collection a query or a paging link
\* resolved with: wrap(resultCollection, options) has discovered its API
Adopt ==
    /\ Idle
    /\ data.kind = "collection"
    /\ result = Result("resolved", "wrap(fetched)")
    /\ wrapOptions.pages < MaxPages
    /\ \E page \in Pages(data) :
          /\ data' = page
          /\ api' = discover(page)
    /\ discoverCalls' = discoverCalls + 1
    /\ wrapOptions' = WrapOptions(wrapOptions.made, wrapOptions.made,
                                  IF op.name = "execute"
                                  THEN [any |-> TRUE, headers |-> loaderCalls[1].headers]
                                  ELSE wrapOptions.sent,
                                  wrapOptions.pages + 1)
    /\ query' = NoQuery
    /\ op' = Op("wrap", <<>>, Failed(FALSE, NoPlans, NoPlans, NoErr))
    /\ loader' = "idle"
    /\ loaderCalls' = <<>>
    /\ localCalls' = <<>>
    /\ wrapCalls' = 0
    /\ result' = Result("resolved", "wrapped")
    /\ UNCHANGED <<options, wrapped>>

\* the caller lets go of a settled query or page load and of its result, and
\* turns back to the wrapped collection in hand; the options objects stay as
\* the calls left them
Release ==
    /\ Idle
    /\ data.kind = "collection"
    /\ op.name \in {"execute", "pageLoad"}
    /\ query' = NoQuery
    /\ op' = Op("wrap", <<>>, Failed(FALSE, NoPlans, NoPlans, NoErr))
    /\ loader' = "idle"
    /\ loaderCalls' = <<>>
    /\ localCalls' = <<>>
    /\ wrapCalls' = 0
    /\ result' = Result("resolved", "wrapped")
    /\ wrapOptions' = [wrapOptions EXCEPT !.made = wrapOptions.held]
    /\ UNCHANGED <<data, options, wrapped, api, discoverCalls>>

\* the loader's promise rejects with e: no handler is attached, so the promise
\* returned to the caller rejects with e and the continuation is skipped
LoaderReject ==
    /\ loader = "outstanding"
    /\ \E e \in LoaderErrors :
          /\ loader' = e
          /\ result' = Rejection(e)
    /\ UNCHANGED <<data, options, wrapped, api, query, op, loaderCalls, localCalls,
                   wrapCalls, discoverCalls, wrapOptions>>

\* wrappedCollection.query() (part_002 36-39)
NewQuery ==
    /\ wrapped = "yes"
    /\ data.kind = "collection"
    /\ ~query.made
    /\ query' = [NoQuery EXCEPT !.made = TRUE]
    /\ UNCHANGED <<data, options, wrapped, api, op, loader, loaderCalls, localCalls,
                   wrapCalls, discoverCalls, wrapOptions, result>>

Chaining ==
    /\ query.made
    /\ op.name = "wrap"
    /\ Len(query.forwarded) < MaxChain

\* QueryProxy.filter(spec)
QFilter ==
    /\ Chaining
    /\ \E spec \in FilterSpecs(data.domain) :
          query' = [query EXCEPT !.filter = mergeInto(spec, @),
                                 !.forwarded = Append(@, <<"filter", spec>>)]
    /\ UNCHANGED <<data, options, wrapped, api, op, loader, loaderCalls, localCalls,
                   wrapCalls, discoverCalls, wrapOptions, result>>

\* QueryProxy.subset(spec)
QSubset ==
    /\ Chaining
    /\ \E spec \in SubsetSpecs(data.domain) :
          query' = [query EXCEPT !.subset = mergeInto(spec, @),
                                 !.forwarded = Append(@, <<"subset", spec>>)]
    /\ UNCHANGED <<data, options, wrapped, api, op, loader, loaderCalls, localCalls,
                   wrapCalls, discoverCalls, wrapOptions, result>>

\* QueryProxy.embed(spec)
QEmbed ==
    /\ Chaining
    /\ \E spec \in EmbedSpecs :
          query' = [query EXCEPT !.embed = mergeInto(spec, @),
                                 !.forwarded = Append(@, <<"embed", spec>>)]
    /\ UNCHANGED <<data, options, wrapped, api, op, loader, loaderCalls, localCalls,
                   wrapCalls, discoverCalls, wrapOptions, result>>

\* the embed accumulator is handed over to the request and emptied
afterExecuteConsumed(q) == [q EXCEPT !.embed = <<>>]

\* the accumulators after _doExecute: this._filter and this._subset are read key
\* by key, this._embed is put into apiConstraints as it is, and getUrlAndHeaders
\* deletes the keys it has applied from a deep copy only
afterExecute(q) == q

\* QueryProxy.execute(); with a domain template the work is done in the caller's
\* turn, otherwise in the continuation of loadDomain()
Execute ==
    /\ Idle
    /\ query.made
    /\ \E o \in {execute(data, api, query)} : Begin("execute", <<>>, data.domainTemplate, o)
    /\ query' = afterExecute(query)

PageLinks == {"first", "previous", "next", "last"}

\* a link object is made whether or not the view has the URL
wrapPageLinkAlways(url) == TRUE

\* wrapPageLink(url): if (!url) return; otherwise an object with load()
wrapPageLink(url) == url

\* wrappedCollection.paging[link].load() (part_002 40-54)
PageLoad ==
    /\ Ready
    /\ ~query.made
    /\ data.kind = "collection"
    /\ api.isPaged
    /\ \E link \in {l \in PageLinks : wrapPageLink(api.paging[l])} :
          Begin("pageLoad", <<link>>, TRUE,
                Outcome(FALSE, NoPlans, NoPlans, NoErr,
                        <<Request(<< <<"page", <<link>>>> >>, OptionHeaders(wrapOptions.held, options))>>,
                        <<>>, ""))
    /\ UNCHANGED query

Next ==
    \/ Wrap
    \/ SubsetByValue
    \/ SubsetByIndex
    \/ NewQuery
    \/ QFilter
    \/ QSubset
    \/ QEmbed
    \/ Execute
    \/ PageLoad
    \/ Adopt
    \/ Release
    \/ LoaderResolve
    \/ LoaderReject

Spec == Init /\ [][Next]_vars

----------------------------------------------------------------------------
\* Properties

SubsetOps == {"subsetByValue", "subsetByIndex"}

SplitOps == SubsetOps \cup {"execute"}

\* the splits of the call: the input object each per-axis pass ran over, the
\* plan the pass produced and the plan after the dependency repair
Split(input, pre, plan) == [input |-> input, pre |-> pre, plan |-> plan]

Splits ==
    IF ~op.planned THEN {}
    ELSE IF op.name \in SubsetOps
    THEN {Split(cleanedConstraints(op.input), op.pre.subset, op.plan.subset)}
    ELSE IF op.name = "execute"
    THEN {Split(query.filter, op.pre.filter, op.plan.filter),
          Split(query.subset, op.pre.subset, op.plan.subset)}
    ELSE {}

\* the remote plan hands all index constraints to the API as one object
IsIndexPlan(plan) == Has(plan.api, "index")

InRemote(plan, axis) ==
    IF IsIndexPlan(plan) THEN Has(Get(plan.api, "index").v, axis)
    ELSE Has(plan.api, ConceptOf(data.domain, axis))

PlanEntries(plan) ==
    IF IsIndexPlan(plan) THEN Len(Get(plan.api, "index").v) + Len(plan.local)
    ELSE Len(plan.api) + Len(plan.local)

\* C1: after the per-axis pass and the dependency repair every axis key of the
\* cleaned input is in exactly one of the remote plan (under its concept) and
\* the local plan (under its axis id), one plan entry per key, also when two
\* constrained axes resolve to the same concept.
ConstraintPreservation ==
    \A sp \in Splits :
        /\ \A axis \in KeySet(sp.input) :
              InRemote(sp.plan, axis) # Has(sp.plan.local, axis)
        /\ KeySet(sp.plan.local) \subseteq KeySet(sp.input)
        /\ PlanEntries(sp.plan) = Len(sp.input)

ConceptsOf(input) == {ConceptOf(data.domain, a) : a \in KeySet(input)}

OnlyOneOfXY(input) == ("x" \in ConceptsOf(input)) # ("y" \in ConceptsOf(input))

BboxAxes(input) == {a \in KeySet(input) : ConceptOf(data.domain, a) \in {"x", "y"}}

\* C2: in every plan the splitter produces, concept x is remote iff concept y is
\* remote; a call constraining only one of the two ends with it in the local plan.
DependencyClosure ==
    \A sp \in Splits :
        /\ Has(sp.plan.api, "x") <=> Has(sp.plan.api, "y")
        /\ (OnlyOneOfXY(sp.input) /\ ~IsIndexPlan(sp.plan)) =>
              /\ ~Has(sp.plan.api, "x") /\ ~Has(sp.plan.api, "y")
              /\ BboxAxes(sp.input) \subseteq KeySet(sp.plan.local)

\* a call that constrains only x, which the per-axis pass marked remote and the
\* repair demoted
DependencyClosureWitness ==
    \E sp \in Splits :
        /\ OnlyOneOfXY(sp.input)
        /\ Has(sp.pre.api, "x")
        /\ ~Has(sp.plan.api, "x")
        /\ Has(sp.plan.local, "x")

NoConstraintsAtAll ==
    op.name = "execute" /\ query.filter = <<>> /\ query.subset = <<>> /\ query.embed = <<>>

FromOriginal == {"local(original)", "wrappedCoverage"}

\* C3: whenever the remote plan for filter and subset is empty and no supported
\* embed is requested, and in particular for a query with no constraints at all,
\* the call makes no loader call and its result comes from the original object.
ZeroNetworkShortCircuit ==
    (op.name \in SplitOps /\ ((op.planned /\ QueryRemoteEmpty(op.plan)) \/ NoConstraintsAtAll)) =>
        /\ loaderCalls = <<>>
        /\ result.k = "resolved"
        /\ result.v \in FromOriginal

LocalPlanEmpty == Len(op.plan.subset.local) = 0 /\ Len(op.plan.filter.local) = 0

\* C4: for subsetByValue, subsetByIndex and execute, when the local plan is not
\* empty the object returned is the result of the data object's own local
\* operation and wrap is never invoked; wrap is invoked on the fetched result
\* only when the local plan is empty.
LocalResultNotRewrapped ==
    (op.name \in SplitOps /\ op.planned) =>
        /\ (result.k = "resolved" /\ ~LocalPlanEmpty) =>
              (result.v \in {"local(original)", "local(fetched)"} /\ wrapCalls = 0)
        /\ wrapCalls > 0 => (LocalPlanEmpty /\ result.v = "wrap(fetched)")
        /\ (result.k = "resolved" /\ loaderCalls # <<>> /\ LocalPlanEmpty) => wrapCalls = 1

\* the loader resolved and the remaining constraints were applied to what it loaded
LocalResultNotRewrappedWitness ==
    /\ op.name \in SplitOps
    /\ ~LocalPlanEmpty
    /\ loader = "resolved"
    /\ result.v = "local(fetched)"

\* C5: one call of execute, subsetByValue or subsetByIndex calls the loader at
\* most once, and a local operation on the fetched object is invoked only when
\* that loader call has resolved, never while it is outstanding.
OneLoaderCallThenLocal ==
    op.name \in SplitOps =>
        /\ Len(loaderCalls) <= 1
        /\ \A i \in 1..Len(localCalls) :
              localCalls[i].on = "fetched" => (loader = "resolved" /\ Len(loaderCalls) = 1)
        /\ loader = "outstanding" => localCalls = <<>>

OneLoaderCallThenLocalWitness ==
    /\ op.name = "execute"
    /\ loader = "resolved"
    /\ Len(loaderCalls) = 1
    /\ \E i \in 1..Len(localCalls) : localCalls[i].on = "fetched"

\* C6: when the loader's promise rejects, the promise returned by execute,
\* subsetByValue, subsetByIndex or a paging link's load rejects with the same
\* error, the loader is not called again, no local operation and no wrap is
\* invoked, and the query accumulators and the wrapped object stay as they were.
RejectionPropagates ==
    /\ [](loader \in LoaderErrors =>
            /\ result = [k |-> "rejected", v |-> loader]
            /\ Len(loaderCalls) = 1
            /\ localCalls = <<>>
            /\ wrapCalls = 0)
    /\ [][loader' \in LoaderErrors =>
            /\ loaderCalls' = loaderCalls
            /\ (loader = "outstanding" =>
                   (query' = query /\ data' = data /\ api' = api /\ options' = options))]_vars

\* the loader rejected the request of a query that had accumulated constraints
RejectionPropagatesWitness ==
    /\ op.name = "execute"
    /\ query.filter # <<>>
    /\ loader \in LoaderErrors

\* C7: for a data object without an identifier wrap succeeds with a descriptor
\* without capabilities, and every later subsetByValue, subsetByIndex and execute
\* evaluates locally, makes no loader call and does not fail.
DiscoveryDegradation ==
    (wrapped = "yes" /\ ~data.id) =>
        /\ api.supportedUrlProps = {}
        /\ op.name \in SplitOps =>
              /\ result.k = "resolved"
              /\ result.v \in FromOriginal
              /\ loaderCalls = <<>>

\* C8: wrap with an options.loader that is not a function throws in the caller's
\* turn, before discovery starts and without a loader call, for coverages and
\* collections alike.
WrapRejectsNonFunction ==
    (options.loader # "function" /\ op.name # "none") =>
        /\ wrapped = "threw"
        /\ result = [k |-> "threw", v |-> "options.loader must be a function"]
        /\ discoverCalls = 0
        /\ loaderCalls = <<>>
        /\ op.name = "wrap"

WrapRejectsNonFunctionWitness ==
    /\ options.loader = "string"
    /\ data.kind = "collection"
    /\ wrapped = "threw"

\* the cleaned constraints of the subsetByValue call in progress or finished
ByValueInput == IF op.name = "subsetByValue" THEN cleanedConstraints(op.input) ELSE <<>>

\* constraint c on axis asks for the value nearest to a target, and the axis's
\* concept supports start/stop subsetting but not target subsetting
EmulatedNearest(axis, c) ==
    /\ c.k = "target"
    /\ api.capabilities.def
    /\ LET cap == CapGet(api.capabilities.subset, ConceptOf(data.domain, axis))
       IN  cap.def /\ ~cap.target /\ cap.start /\ cap.stop

\* the axis values and the target on the number line they are compared on
Searched(axis, target) == prepareForAxisArraySearch(data.domain, axis, target)

\* twice the target lies in twice the extent: min and max extended by half a cell
InExtent(axis, target) ==
    LET vals == Searched(axis, target)[1]
        t == Searched(axis, target)[2]
        cell == IF Len(vals) > 1 THEN Abs(vals[1] - vals[2]) ELSE 0
    IN  2 * Min(Range(vals)) - cell <= 2 * t /\ 2 * t <= 2 * Max(Range(vals)) + cell

\* the axis values no other axis value is nearer to the target than
NearestValues(axis, target) ==
    LET vals == Searched(axis, target)[1]
        t == Searched(axis, target)[2]
    IN  {data.domain.values[axis][i] : i \in
            {j \in 1..Len(vals) : \A k \in 1..Len(vals) : Abs(vals[j] - t) <= Abs(vals[k] - t)}}

Snapped(axis, target) == {StartStop(v, v) : v \in NearestValues(axis, target)}

DependenciesMet(remote, concept) ==
    concept \in {"x", "y"} => (Has(remote, "x") /\ Has(remote, "y"))

\* no later key of the constraints resolves to the same concept
LastOfConcept(constraints, i) ==
    \A j \in (i + 1)..Len(constraints) :
        ConceptOf(data.domain, constraints[j][1]) # ConceptOf(data.domain, constraints[i][1])

TimeFilterQuery ==
    /\ op.name = "execute"
    /\ Len(query.filter) = 1
    /\ Len(query.subset) = 0
    /\ ConceptOf(data.domain, query.filter[1][1]) = "time"
    /\ query.filter[1][2].k = "startstop"

\* the descriptor supports a filter range on time
TimeFilterSupported ==
    /\ api.capabilities.def
    /\ CapGet(api.capabilities.filter, "time").start
    /\ CapGet(api.capabilities.filter, "time").stop

\* C11: a collection query whose only filter is Range(start, stop) on an axis
\* resolved to time, under a descriptor that supports a filter range on time,
\* makes exactly one loader call; in its URL the time start and end template
\* variables are the caller's two values, unchanged; the local filter plan and
\* the local subset plan are empty.
TimeFilterIsRemote ==
    (TimeFilterQuery /\ TimeFilterSupported) =>
        /\ Len(loaderCalls) = 1
        /\ \E i \in 1..Len(loaderCalls[1].url) :
              loaderCalls[1].url[i] = <<"filterTimeStart", <<query.filter[1][2].v[1]>> >>
        /\ \E i \in 1..Len(loaderCalls[1].url) :
              loaderCalls[1].url[i] = <<"filterTimeEnd", <<query.filter[1][2].v[2]>> >>
        /\ \A i \in 1..Len(loaderCalls[1].url) :
              loaderCalls[1].url[i][1] \in {"filterTimeStart", "filterTimeEnd"}
        /\ op.plan.filter.local = <<>>
        /\ op.plan.subset.local = <<>>

\* filter({t: {start: 0, stop: 4}}) on the time series collection
TimeFilterIsRemoteWitness ==
    /\ TimeFilterQuery
    /\ TimeFilterSupported
    /\ query.filter = << <<"t", StartStop(0, 4)>> >>
    /\ loader = "resolved"
    /\ loaderCalls[1].url = << <<"filterTimeStart", <<0>> >>, <<"filterTimeEnd", <<4>> >> >>

\* the caller asked the query in hand to embed a part
EmbedRequested ==
    \E i \in 1..Len(query.embed) : query.embed[i][2]

\* C12: a subsetByValue, subsetByIndex or execute call passes the Prefer header
\* to the loader only when the caller requested an embed part and the
\* descriptor supports embedding; calls on a coverage and queries without
\* embed() never pass it.
PreferOnlyWhenEmbedRequested ==
    \A i \in 1..Len(loaderCalls) :
        (op.name \in SplitOps /\ loaderCalls[i].headers.prefer) =>
            /\ op.name = "execute"
            /\ EmbedRequested
            /\ api.supportsPreferHeaders

\* the collection in hand descends, by wrapping a query result and then by
\* paging, from a query execute that passed the Prefer header to the loader
FromEmbedQuery == wrapOptions.sent.any /\ wrapOptions.sent.headers.prefer

\* C13: after a collection query execute that sent embed headers and returned
\* a wrapped collection, every load of a paging link of that collection, and of
\* every page reached from it by further paging, calls the loader with those
\* same headers.
PagingCarriesQueryHeaders ==
    (op.name = "pageLoad" /\ FromEmbedQuery) =>
        /\ Len(loaderCalls) = 1
        /\ loaderCalls[1].headers = wrapOptions.sent.headers

\* the headers the paging links of the collection in hand pass to the loader
PagingHeaders == OptionHeaders(wrapOptions.held, options)

\* C16: executes of queries made from one wrapped collection share no mutable
\* state: no call writes to the options the caller handed to wrap (its headers
\* included), and the headers the paging links of a wrapped collection pass on
\* are not changed by the execute of a query, whichever query it is.
ExecuteWritesNoSharedObject ==
    [][/\ options' = options
       /\ wrapOptions'.pages = wrapOptions.pages => PagingHeaders' = PagingHeaders]_vars

\* the specs the calls of one kind handed over, in call order
CallsOf(kind) == SelectSeq(query.forwarded, LAMBDA call : call[1] = kind)

\* the last call among calls whose spec has key
LastSupplying(calls, key) == Max({i \in 1..Len(calls) : Has(calls[i][2], key)})

\* acc holds the keys the calls of kind supplied, each once, each with the value
\* of the last call that supplied it
Accumulated(acc, kind) ==
    LET calls == CallsOf(kind) IN
    /\ KeySet(acc) = UNION {KeySet(calls[i][2]) : i \in 1..Len(calls)}
    /\ Len(acc) = Cardinality(KeySet(acc))
    /\ \A key \in KeySet(acc) : Get(acc, key) = Get(calls[LastSupplying(calls, key)][2], key)

\* C14: each of the filter, subset and embed accumulators of a query maps each
\* key to the value of the last call of its own kind that supplied the key, so
\* a call of one kind leaves the other accumulators as they were; the calls act
\* on the one query object, and every spec was forwarded, as it is, to the
\* underlying local query.
QueryAccumulation ==
    query.made =>
        /\ Accumulated(query.filter, "filter")
        /\ Accumulated(query.subset, "subset")
        /\ Accumulated(query.embed, "embed")
        /\ \A i \in 1..Len(query.forwarded) :
              query.forwarded[i][1] \in {"filter", "subset", "embed"}

\* subset({z: {target: 1}}) then subset({z: 0}): the identity value is kept
QueryAccumulationWitness ==
    /\ query.made
    /\ query.forwarded = << <<"subset", << <<"z", Nearest(1)>> >> >>,
                            <<"subset", << <<"z", Exact(0)>> >> >> >>
    /\ query.subset = << <<"z", Exact(0)>> >>
    /\ query.filter = <<>>
    /\ query.embed = <<>>

PagingLinksAreLazy ==
    /\ (wrapped = "yes" /\ op.name = "wrap") => (loaderCalls = <<>> /\ loader = "idle")
    /\ wrapped = "yes" => api = discover(data)
    /\ op.name = "pageLoad" =>
          /\ api.isPaged
          /\ api.paging[op.input[1]]
          /\ Len(loaderCalls) = 1
          /\ loaderCalls[1].url = << <<"page", <<op.input[1]>> >> >>
          /\ localCalls = <<>>
          /\ loader = "resolved" =>
                (result = [k |-> "resolved", v |-> "wrap(fetched)"] /\ wrapCalls = 1)

\* the next link of a page that was itself reached through a paging link of the
\* collection first wrapped has been loaded
PagingLinksAreLazyWitness ==
    /\ op.name = "pageLoad"
    /\ op.input = <<"next">>
    /\ ~wrapOptions.sent.any
    /\ wrapOptions.pages = 1
    /\ loader = "resolved"
    /\ wrapCalls = 1

----------------------------------------------------------------------------
\* The dependency repair on its own, over capability objects with any
\* dependency relation between the concepts of the grid domain

\* the concepts the axes of domain resolve to
ConceptsIn(domain) == {ConceptOf(domain, a) : a \in AxisSet(domain)}

\* capability objects: every concept takes a range and depends on no concept or
\* on one other concept
DependencyRelations(domain) ==
    LET C == ConceptsIn(domain)
        needs == {f \in [C -> C \cup {Undef}] : \A c \in C : f[c] # c}
        order == [i \in 1..Len(domain.axes) |-> ConceptOf(domain, domain.axes[i])]
    IN  {[i \in 1..Len(order) |->
             <<order[i], [startstop EXCEPT !.dependency =
                              IF f[order[i]] = Undef THEN <<>> ELSE <<f[order[i]]>>]>>] :
         f \in needs}

\* the coverage whose API the capabilities are attached to
RepairCoverage ==
    [kind |-> "coverage", id |-> TRUE,
     ld |-> Ld(TRUE, {"subsetBbox", "subsetVerticalStart", "subsetVerticalEnd"},
               FALSE, FALSE, NoLinks),
     domain |-> DomGrid, domainTemplate |-> FALSE, coverages |-> 0]

\* the outcomes of a per-axis pass: up to MaxKeys axes in any order, each with a
\* range, each marked remote or local
PassOutcomes(domain) ==
    LET seqs == UNION {[1..n -> AxisSet(domain)] : n \in 1..MaxKeys}
        keys == {s \in seqs : \A i, j \in 1..Len(s) : i # j => s[i] # s[j]}
    IN  UNION {{[i \in 1..Len(s) |->
                    Decision(s[i], ConceptOf(domain, s[i]), NoErr, use[i],
                             StartStop(QueryPair(domain, s[i])[1], QueryPair(domain, s[i])[2]))] :
                use \in [1..Len(s) -> BOOLEAN]} :
               s \in keys}

RepairInit ==
    /\ data = RepairCoverage
    /\ api \in {[discover(RepairCoverage) EXCEPT !.capabilities.subset = caps] :
                   caps \in DependencyRelations(DomGrid)}
    /\ options = [loader |-> "function", has |-> FALSE, headers |-> NoHeaders]
    /\ wrapOptions = WrapOptions(CallerOptions, CallerOptions, NoneSent, 0)
    /\ wrapped = "yes"
    /\ query = NoQuery
    /\ op = Op("wrap", <<>>, Failed(FALSE, NoPlans, NoPlans, NoErr))
    /\ loader = "idle"
    /\ loaderCalls = <<>>
    /\ localCalls = <<>>
    /\ wrapCalls = 0
    /\ discoverCalls = 1
    /\ result = Result("resolved", "wrapped")

\* toLocalConstraintsIfDependencyMissing(apiConstraints, localConstraints,
\* capabilities, axisConcepts) applied to the outcome of a per-axis pass
Repair ==
    /\ op.name = "wrap"
    /\ \E decisions \in PassOutcomes(data.domain) :
          LET pass == Assemble(decisions)
              repaired == toLocalConstraintsIfDependencyMissing(
                              pass, api.capabilities.subset, data.domain)
          IN  op' = Op("repair", [i \in 1..Len(decisions) |->
                                     <<decisions[i].axis, decisions[i].constraint>>],
                       Failed(TRUE, Plans(EmptyPlan, pass, <<>>),
                              Plans(EmptyPlan, repaired, <<>>), NoErr))
    /\ UNCHANGED <<data, options, wrapped, api, query, loader, loaderCalls, localCalls,
                   wrapCalls, discoverCalls, wrapOptions, result>>

RepairNext == Repair

RepairSpec == RepairInit /\ [][RepairNext]_vars

EmulatedExact(axis, c) ==
    /\ c.k = "exact"
    /\ api.capabilities.def
    /\ LET cap == CapGet(api.capabilities.subset, ConceptOf(data.domain, axis))
       IN  cap.def /\ ~cap.identity /\ cap.start /\ cap.stop

\* some value of the axis equals v, as timestamps on an ISO time axis
EqualsAxisValue(axis, v) ==
    \E k \in 1..Len(data.domain.values[axis]) :
        IF isISODateAxis(data.domain, axis)
        THEN toUnix(data.domain.values[axis][k]) = toUnix(v)
        ELSE data.domain.values[axis][k] = v

\* C19: in subsetByValue an Exact(value) constraint on a concept that supports
\* range but not exact match is put into the remote plan, as Range(value,
\* value), if and only if value equals some axis value (as timestamps on an ISO
\* time axis); when no axis value equals it, it is put into the local plan
\* unchanged.
ExactEmulation ==
    \A i \in 1..Len(ByValueInput) :
        LET axis == ByValueInput[i][1]
            c == ByValueInput[i][2]
            concept == ConceptOf(data.domain, axis)
            pre == op.pre.subset
        IN  (EmulatedExact(axis, c) /\ op.planned /\ LastOfConcept(ByValueInput, i)) =>
                IF EqualsAxisValue(axis, c.v[1])
                THEN /\ Has(pre.api, concept)
                     /\ Get(pre.api, concept) = StartStop(c.v[1], c.v[1])
                ELSE /\ ~Has(pre.api, concept)
                     /\ Has(pre.local, axis)
                     /\ Get(pre.local, axis) = c

\* constraint c on axis is a start/stop range, and the axis's concept supports
\* start/stop subsetting
RangeCapable(axis, c) ==
    /\ c.k = "startstop"
    /\ api.capabilities.def
    /\ LET cap == CapGet(api.capabilities.subset, ConceptOf(data.domain, axis))
       IN  cap.def /\ cap.start /\ cap.stop

\* twice the value lies below, or above, twice the extent
BelowExtent(axis, v) ==
    LET vals == Searched(axis, v)[1]
        cell == IF Len(vals) > 1 THEN Abs(vals[1] - vals[2]) ELSE 0
    IN  2 * Searched(axis, v)[2] < 2 * Min(Range(vals)) - cell

AboveExtent(axis, v) ==
    LET vals == Searched(axis, v)[1]
        cell == IF Len(vals) > 1 THEN Abs(vals[1] - vals[2]) ELSE 0
    IN  2 * Searched(axis, v)[2] > 2 * Max(Range(vals)) + cell

\* start and stop each replaced by an axis value nearest to it
SnappedRange(axis, c) ==
    {StartStop(a, b) : a \in NearestValues(axis, c.v[1]), b \in NearestValues(axis, c.v[2])}

\* the call failed, and before any loader call
FailedBeforeLoading == result.k \in {"rejected", "threw"} /\ loaderCalls = <<>>

\* the per-axis pass put constraint i, snapped to the axis values, into the
\* remote plan
RangeIsSnapped(i) ==
    LET axis == ByValueInput[i][1]
        concept == ConceptOf(data.domain, axis)
    IN  (op.planned /\ LastOfConcept(ByValueInput, i)) =>
            /\ Has(op.pre.subset.api, concept)
            /\ Get(op.pre.subset.api, concept) \in SnappedRange(axis, ByValueInput[i][2])

InIndexVariable(axis) ==
    \E i \in 1..Len(loaderCalls) :
        \E j \in 1..Len(loaderCalls[i].url) :
            /\ loaderCalls[i].url[j][1] = "subsetIndex"
            /\ axis \in Range(loaderCalls[i].url[j][2])

\* C21: in every plan of subsetByValue, subsetByIndex or a collection query, a
\* constraint on an axis whose concept is unknown is not part of the remote plan
\* and does not reach the URL, whatever the descriptor supports, generic index
\* subsetting included.
UnknownConceptsStayLocal ==
    \A sp \in Splits :
        \A axis \in KeySet(sp.input) :
            ConceptOf(data.domain, axis) = Undef =>
                /\ ~InRemote(sp.plan, axis)
                /\ ~InIndexVariable(axis)

----------------------------------------------------------------------------
\* Axis-concept resolution on its own, over domains with any referencing

\* a referencing entry: the axes it names, in order, and its system type
ReferencingEntries ==
    [components : {<<"p">>, <<"p", "q">>, <<"p", "q", "r", "s">>, <<"s", "r">>},
     type : {"TemporalRS", "VerticalCRS", "GeodeticCRS", "ProjectedCRS", "EngineeringCRS"}]

\* domains with four axes and up to MaxRefs referencing entries
ConceptDomains ==
    {[axes |-> <<"p", "q", "r", "s">>,
      values |-> [a \in {"p", "q", "r", "s"} |-> <<0, 1>>],
      referencing |-> refs, iso |-> {}, lon |-> {}] :
        refs \in UNION {[1..n -> ReferencingEntries] : n \in 0..MaxRefs}}

ConceptInit ==
    /\ data \in {[kind |-> "coverage", id |-> FALSE, ld |-> NoLd, domain |-> d,
                  domainTemplate |-> FALSE, coverages |-> 0] : d \in ConceptDomains}
    /\ api = NewAPI(FALSE, NoLd)
    /\ options = [loader |-> "function", has |-> FALSE, headers |-> NoHeaders]
    /\ wrapOptions = WrapOptions(CallerOptions, CallerOptions, NoneSent, 0)
    /\ wrapped = "yes"
    /\ query = NoQuery
    /\ op = Op("wrap", <<>>, Failed(FALSE, NoPlans, NoPlans, NoErr))
    /\ loader = "idle"
    /\ loaderCalls = <<>>
    /\ localCalls = <<>>
    /\ wrapCalls = 0
    /\ discoverCalls = 1
    /\ result = Result("resolved", "wrapped")

\* getAxisConcepts(domain): the mapping is returned, the domain is only read
\* (referencing.filter and components.indexOf build new values)
GetAxisConcepts ==
    /\ Len(localCalls) < MaxCalls
    /\ localCalls' = Append(localCalls,
                            LocalCall("domain", "getAxisConcepts", <<>>,
                                      AxisConceptPairs(data.domain)))
    /\ UNCHANGED <<data, options, wrapped, api, query, op, loader, loaderCalls,
                   wrapCalls, discoverCalls, wrapOptions, result>>

ConceptNext == GetAxisConcepts

ConceptSpec == ConceptInit /\ [][ConceptNext]_vars

\* the referencing entries of the domain that name the axis
EntriesNaming(domain, axis) ==
    {i \in 1..Len(domain.referencing) :
        \E k \in 1..Len(domain.referencing[i].components) :
            domain.referencing[i].components[k] = axis}

\* the position of the axis among the components of entry i, counted from 0
PositionIn(domain, i, axis) ==
    (CHOOSE k \in 1..Len(domain.referencing[i].components) :
        /\ domain.referencing[i].components[k] = axis
        /\ \A j \in 1..(k - 1) : domain.referencing[i].components[j] # axis) - 1

\* the concept the resolution is to give the axis
ResolvedConcept(domain, axis) ==
    LET named == EntriesNaming(domain, axis) IN
    IF Cardinality(named) # 1 THEN Undef
    ELSE LET i == CHOOSE n \in named : TRUE
             type == domain.referencing[i].type
             pos == PositionIn(domain, i, axis)
         IN  IF type = "TemporalRS" THEN "time"
             ELSE IF type = "VerticalCRS" THEN "vertical"
             ELSE IF type \in {"GeodeticCRS", "ProjectedCRS"}
             THEN (IF pos = 0 THEN "x"
                   ELSE IF pos = 1 THEN "y"
                   ELSE IF pos = 2 THEN "vertical"
                   ELSE Undef)
             ELSE Undef

\* C22: axis-concept resolution is a pure function of the domain: an axis in no
\* or in more than one referencing entry is unknown; a temporal system gives
\* time, a vertical system vertical, a geodetic or projected system x, y,
\* vertical for the component positions 0, 1, 2 and unknown beyond, any other
\* system type unknown; every call on a domain returns this mapping, so two
\* calls return the same, and the domain is as it was.
ConceptResolutionIsPure ==
    [][Len(localCalls') > Len(localCalls) =>
          /\ data' = data
          /\ LET mapping == localCalls'[Len(localCalls')].subset
             IN  /\ Len(mapping) = Len(data.domain.axes)
                 /\ \A i \in 1..Len(mapping) :
                       /\ mapping[i][1] = data.domain.axes[i]
                       /\ mapping[i][2] = ResolvedConcept(data.domain, mapping[i][1])]_vars

\* a geodetic system with four components and a second entry naming s and r:
\* p is x, q is y, r and s are in two entries and unknown; resolved twice
ConceptResolutionIsPureWitness ==
    /\ Len(localCalls) = 2
    /\ localCalls[1].method = "getAxisConcepts"
    /\ data.domain.referencing =
          << [components |-> <<"p", "q", "r", "s">>, type |-> "GeodeticCRS"],
             [components |-> <<"s", "r">>, type |-> "VerticalCRS"] >>
    /\ localCalls[2].subset = << <<"p", "x">>, <<"q", "y">>, <<"r", Undef>>, <<"s", Undef>> >>
    /\ localCalls[1] = localCalls[2]

----------------------------------------------------------------------------
\* Generic index subsetting

\* subsetByIndex ran its pass on a descriptor with index subsetting
GenericIndexCall ==
    /\ op.name = "subsetByIndex"
    /\ op.planned
    /\ IsIndexPlan(op.plan.subset)

\* C23: when the descriptor supports index-based subsetting, subsetByIndex with
\* any index constraints builds a URL whose index variable has one entry per
\* constrained axis, calls the loader exactly once and does not fail during URL
\* construction.
GenericIndexSubsetting ==
    GenericIndexCall =>
        /\ result.k # "rejected"
        /\ Len(loaderCalls) = 1
        /\ \E j \in 1..Len(loaderCalls[1].url) :
              /\ loaderCalls[1].url[j][1] = "subsetIndex"
              /\ loaderCalls[1].url[j][2] = Keys(cleanedConstraints(op.input))

----------------------------------------------------------------------------
\* Index emulation

\* the cleaned constraints of the subsetByIndex call in progress or finished
ByIndexInput == IF op.name = "subsetByIndex" THEN cleanedConstraints(op.input) ELSE <<>>

\* the descriptor has no generic index subsetting and the axis's concept
\* supports start/stop subsetting
EmulatedIndex(axis) ==
    /\ api.capabilities.def
    /\ ~CapGet(api.capabilities.subset, "index").def
    /\ LET cap == CapGet(api.capabilities.subset, ConceptOf(data.domain, axis))
       IN  cap.def /\ cap.start /\ cap.stop

\* the axis value at index i, counted from 0
ValueAt(axis, i) == data.domain.values[axis][i + 1]

\* the per-axis pass put constraint c under the axis's concept in the remote plan
PassedRemote(axis, c) ==
    /\ Has(op.pre.subset.api, ConceptOf(data.domain, axis))
    /\ Get(op.pre.subset.api, ConceptOf(data.domain, axis)) = c

\* the per-axis pass left constraint c under the axis in the local plan
PassedLocal(axis, c) ==
    /\ Has(op.pre.subset.local, axis)
    /\ Get(op.pre.subset.local, axis) = c

----------------------------------------------------------------------------
\* The value snapper on its own, over every axis and values on and off the grid

\* a descending axis of plain numbers
DomDepth ==
    [axes |-> <<"d">>,
     values |-> [a \in {"d"} |-> <<30, 20, 10, 0>>],
     referencing |-> << [components |-> <<"d">>, type |-> "VerticalCRS"] >>,
     iso |-> {}, lon |-> {}]

SnapDomains == Domains \cup {DomDepth}

\* the axis values and values next to them, between them and beyond both ends
SnapVals(domain, axis) ==
    {domain.values[axis][k] + d : k \in 1..Len(domain.values[axis]), d \in {-3, 0, 1}}

\* one lookup: the searched value, the index found (counted from 0) and the axis
\* value at that index
Lookup(domain, axis, val) ==
    LET idx == getClosestIndex(domain, axis, val)
    IN  LocalCall(axis, "getClosestIndex", <<val>>, <<idx - 1, domain.values[axis][idx]>>)

SnapInit ==
    /\ data \in {[kind |-> "coverage", id |-> FALSE, ld |-> NoLd, domain |-> d,
                  domainTemplate |-> FALSE, coverages |-> 0] : d \in SnapDomains}
    /\ api = NewAPI(FALSE, NoLd)
    /\ options = [loader |-> "function", has |-> FALSE, headers |-> NoHeaders]
    /\ wrapOptions = WrapOptions(CallerOptions, CallerOptions, NoneSent, 0)
    /\ wrapped = "yes"
    /\ query = NoQuery
    /\ op = Op("wrap", <<>>, Failed(FALSE, NoPlans, NoPlans, NoErr))
    /\ loader = "idle"
    /\ loaderCalls = <<>>
    /\ localCalls = <<>>
    /\ wrapCalls = 0
    /\ discoverCalls = 1
    /\ result = Result("resolved", "wrapped")

\* getClosestIndex(domain, axis, val) and the axis value at the index
Snap ==
    /\ Len(localCalls) < MaxCalls
    /\ \E axis \in AxisSet(data.domain) :
          \E val \in SnapVals(data.domain, axis) :
              localCalls' = Append(localCalls, Lookup(data.domain, axis, val))
    /\ UNCHANGED <<data, options, wrapped, api, query, op, loader, loaderCalls,
                   wrapCalls, discoverCalls, wrapOptions, result>>

\* the value the last lookup gave is looked up on the same axis
SnapAgain ==
    /\ Len(localCalls) > 0
    /\ Len(localCalls) < MaxCalls
    /\ LET last == localCalls[Len(localCalls)]
       IN  localCalls' = Append(localCalls, Lookup(data.domain, last.on, last.subset[2]))
    /\ UNCHANGED <<data, options, wrapped, api, query, op, loader, loaderCalls,
                   wrapCalls, discoverCalls, wrapOptions, result>>

SnapNext == Snap \/ SnapAgain

SnapSpec == SnapInit /\ [][SnapNext]_vars

----------------------------------------------------------------------------
\* The remote subset plan and the URL

\* the URL properties a constraint under a concept of the remote subset plan
\* is written to
SubsetVariables(concept, c) ==
    CASE concept = "time" -> {"subsetTimeStart", "subsetTimeEnd"}
      [] concept \in {"x", "y"} -> {"subsetBbox"}
      [] concept = "vertical" /\ c.k = "target" -> {"subsetVerticalTarget"}
      [] concept = "vertical" /\ c.k # "target" -> {"subsetVerticalStart", "subsetVerticalEnd"}
      [] concept = "index" -> {"subsetIndex"}
      [] OTHER -> {}

\* the URL properties set in the URL of the call's request
VariablesSet == {loaderCalls[1].url[j][1] : j \in 1..Len(loaderCalls[1].url)}

\* C26: for each concept in the remote subset plan handed to URL construction
\* its template variables are set in the expanded URL, for every constraint
\* value, 0 included: a vertical Range(0, 0) or Nearest(0) sets the vertical
\* start and end or the target variable.
RemotePlanConstrainsRequest ==
    (op.name \in SplitOps /\ op.planned /\ Len(loaderCalls) > 0) =>
        \A i \in 1..Len(op.plan.subset.api) :
            SubsetVariables(op.plan.subset.api[i][1], op.plan.subset.api[i][2])
                \subseteq VariablesSet

----------------------------------------------------------------------------
\* What the dependency repair hands to the local plan

\* the per-axis pass of subsetByValue rewrote constraint c of the axis for the
\* remote plan, the repair took the axis's concept out of the remote plan, and
\* another concept stayed in it
DemotedRewritten(i) ==
    LET axis == ByValueInput[i][1]
        c == ByValueInput[i][2]
        concept == ConceptOf(data.domain, axis)
    IN  /\ op.planned
        /\ LastOfConcept(ByValueInput, i)
        /\ Has(op.pre.subset.api, concept)
        /\ Get(op.pre.subset.api, concept) # c
        /\ ~Has(op.plan.subset.api, concept)
        /\ Len(op.plan.subset.api) > 0

\* C27: when subsetByValue snaps a Range or rewrites a Nearest or Exact
\* constraint to Range(v, v) for remote use and that concept is then demoted by
\* the dependency repair while another concept stays remote, the constraint in
\* the local plan, applied to the fetched object, is the one the caller
\* supplied, not the snapped or rewritten one.
DemotedKeepsOriginal ==
    \A i \in 1..Len(ByValueInput) :
        DemotedRewritten(i) =>
            LET axis == ByValueInput[i][1]
                c == ByValueInput[i][2]
            IN  /\ Has(op.plan.subset.local, axis)
                /\ Get(op.plan.subset.local, axis) = c
                /\ loader = "resolved" =>
                      \E n \in 1..Len(localCalls) :
                          /\ localCalls[n].on = "fetched"
                          /\ Has(localCalls[n].subset, axis)
                          /\ Get(localCalls[n].subset, axis) = c

----------------------------------------------------------------------------
\* QueryProxy.execute(options) of util.js, over wrapped collections and queries

\* what _doExecute's parameters options and domainTemplate are bound to
ArgsOfTemplate == <<"domainTemplate", Undef>>

ArgsOfCoverage == <<"options", "domain">>

\* QueryProxy._doExecute(options, domainTemplate) up to the loader call (util.js
\* 115-175): getAxisConcepts(domainTemplate) reads the axes of its argument; the
\* loader is called with the URL and options, without headers
doExecuteOptions(args, collection, d, q) ==
    IF ~d.capabilities.def \/ args[2] = Undef
    THEN Failed(FALSE, NoPlans, NoPlans, TypeError)
    ELSE LET o == doExecute(collection.domain, d, q)
         IN  [o EXCEPT !.request = [i \in 1..Len(@) |-> Request(@[i].url, NoHeaders)]]

\* QueryProxy.execute(options) (util.js 101-113)
executeOptions(collection, d, q) ==
    IF collection.domainTemplate
    THEN doExecuteOptions(ArgsOfTemplate, collection, d, q)
    ELSE IF collection.coverages > 0
    THEN doExecuteOptions(ArgsOfCoverage, collection, d, q)
    ELSE LocalQuery(q, FALSE, NoPlans, NoPlans)

\* the arguments execute hands to _doExecute
executeArgs(collection) ==
    IF collection.domainTemplate THEN ArgsOfTemplate
    ELSE IF collection.coverages > 0 THEN ArgsOfCoverage
    ELSE <<>>

\* the queries: at most one filter call and one subset call were made
Queries(domain) ==
    {[NoQuery EXCEPT !.made = TRUE, !.filter = f, !.subset = s] :
        f \in {<<>>} \cup FilterSpecs(domain), s \in {<<>>} \cup SubsetSpecs(domain)}

\* a wrapped collection and a query on it
QueryInit ==
    /\ data \in {d \in DataObjects : d.kind = "collection"}
    /\ api = discover(data)
    /\ query \in Queries(data.domain)
    /\ options = [loader |-> "function", has |-> FALSE, headers |-> NoHeaders]
    /\ wrapOptions = WrapOptions(CallerOptions, CallerOptions, NoneSent, 0)
    /\ wrapped = "yes"
    /\ op = Op("wrap", <<>>, Failed(FALSE, NoPlans, NoPlans, NoErr))
    /\ loader = "idle"
    /\ loaderCalls = <<>>
    /\ localCalls = <<>>
    /\ wrapCalls = 0
    /\ discoverCalls = 1
    /\ result = Result("resolved", "wrapped")

\* query.execute(options); with a domain template _doExecute runs in the
\* caller's turn, otherwise in the continuation of loadDomain()
ExecuteOptions ==
    /\ Ready
    /\ \E o \in {executeOptions(data, api, query)} :
          Begin("execute", executeArgs(data), data.domainTemplate, o)
    /\ UNCHANGED query

\* the continuation of load(url, options) (util.js 176-186)
QueryLoaded ==
    /\ loader = "outstanding"
    /\ loader' = "resolved"
    /\ LET after == AfterLoad(op.name, op.plan)
       IN  /\ localCalls' = localCalls \o after.local
           /\ wrapCalls' = wrapCalls + after.wraps
           /\ result' = Result("resolved", after.ret)
    /\ UNCHANGED <<data, options, wrapped, api, query, op, loaderCalls, discoverCalls,
                   wrapOptions>>

QueryNext == ExecuteOptions \/ QueryLoaded

QuerySpec == QueryInit /\ [][QueryNext]_vars

\* C28: a collection query executes the same way whether the domain comes from
\* the collection's domainTemplate or from the first coverage's loaded domain:
\* in both cases _doExecute gets the caller's execute options as its options and
\* the domain as the domain its plan is computed from, and execute on a
\* collection with a domainTemplate does not fail.
ExecuteSameWithTemplate ==
    (op.name = "execute" /\ (data.domainTemplate \/ data.coverages > 0)) =>
        /\ op.input = ArgsOfCoverage
        /\ (/\ data.domainTemplate
            /\ api.capabilities.def
            /\ \A i \in 1..Len(query.subset) : ~IsPrimitive(query.subset[i][2])) =>
               /\ op.planned
               /\ result.k \notin {"threw", "rejected"}

----------------------------------------------------------------------------
\* The subset split of a collection query

\* execute got as far as the per-axis passes: the collection has a domain to
\* plan from and the descriptor has capabilities
QuerySplitRuns ==
    /\ op.name = "execute"
    /\ api.capabilities.def
    /\ data.domainTemplate \/ data.coverages > 0

\* C29: for every capability record and every constraint shape (a primitive
\* exact value, {target}, {start, stop}) the per-axis subset pass of a
\* collection query classifies the constraint as remote or local without
\* failing; a primitive exact value on a concept whose capability record lacks
\* exact-match support ends in the local plan.
QuerySubsetSplitIsTotal ==
    QuerySplitRuns =>
        /\ op.planned
        /\ \A i \in 1..Len(query.subset) :
              LET axis == query.subset[i][1]
                  cap == CapGet(api.capabilities.subset, ConceptOf(data.domain, axis))
              IN  (IsPrimitive(query.subset[i][2]) /\ ~cap.identity) =>
                      /\ Has(op.plan.subset.local, axis)
                      /\ Get(op.plan.subset.local, axis) = query.subset[i][2]

----------------------------------------------------------------------------
\* The short circuit of subsetting without effect

\* the axes the entries of the caller's constraints object that are neither
\* null nor undefined name
NamedAxes(constraints) ==
    {constraints[i][1] : i \in {j \in 1..Len(constraints) : constraints[j][2] # Null}}

\* C30: subsetByValue or subsetByIndex whose non-null constraints all name axes
\* with at most one value resolves to the wrapped coverage it was called on,
\* with no loader call, no call of the underlying coverage's subset operation
\* and no new wrapping; null and undefined entries are ignored, and the
\* constraints object the caller passed still has them.
NoEffectShortCircuit ==
    (/\ op.name \in SubsetOps
     /\ \A axis \in NamedAxes(op.input) : Len(data.domain.values[axis]) <= 1) =>
        /\ result = Result("resolved", "wrappedCoverage")
        /\ loaderCalls = <<>>
        /\ localCalls = <<>>
        /\ wrapCalls = 0
        /\ ~op.planned

\* a value on the axis z = [5] and a null entry for the time axis of three values
NoEffectShortCircuitWitness ==
    /\ op.name \in SubsetOps
    /\ \E i, j \in 1..Len(op.input) :
          /\ op.input[i][2] # Null
          /\ Len(data.domain.values[op.input[i][1]]) = 1
          /\ op.input[j][2] = Null
          /\ Len(data.domain.values[op.input[j][1]]) > 1
    /\ result = Result("resolved", "wrappedCoverage")

====
